---- MODULE Spec2Model ----
(***************************************************************************)
(* The `populate` command of leetcode-cli (src/cmds/populate.rs): the      *)
(* per-problem gate write_file, the view builder create_view with          *)
(* get_percent_view, and the batch loop of PopulateCommand::handler with   *)
(* its manifest (mod.rs) handle table.                                     *)
(*                                                                         *)
(* The file system is modelled by its contents: stubs, tests and mods are  *)
(* functions whose domain is the set of existing paths, links is the set   *)
(* of symlinks and viewdirs the set of view directories.  A file system    *)
(* call fails for the reasons the program itself creates (symlink on an    *)
(* existing link, remove_file on a missing file); SpecFault adds one       *)
(* injected I/O error per behaviour.                                       *)
(***************************************************************************)
EXTENDS Integers, Sequences, FiniteSets, TLC

\* ------------------------------------------------------------------ bounds
\* Number of problems in the catalog (problems.len()).
NumProblems == 3
\* Number of problems in the catalog of the fault-injection specification.
NumProblemsFault == 2
\* Injected I/O errors per behaviour of SpecFault.
MaxFaults == 1
\* Percent values (in tenths) drawn by the view specification:
\* -PercentBelow .. PercentAbove.
PercentBelow == 30
PercentAbove == 1520
\* Lines of a statement and definitions of a question drawn for
\* create_file_header and for the loop over question.defs.
MaxLines == 2
MaxDefs == 3

\* ------------------------------------------------------- program constants
\* static PERCENT_VIEWS
PERCENT_VIEWS ==
  <<"0-10", "10-20", "20-30", "30-40", "40-50", "50-60", "60-70", "70-80", "80-90", "90-100">>

RUST_DOC_STR_START == "//!"

\* The language configured in conf.code.lang.
Lang == "rust"

\* File stems of the problems, by position in the catalog (fid = position).
Names == <<"p1", "p2", "p3", "p4", "p5", "p6">>

Dirs == {"d1", "d2"}

\* ------------------------------------------------------------ the catalog
\* One Problem together with the Question the catalog holds for it:
\*   locked    Problem.locked
\*   desc      "json" when Problem.desc parses as a Question, else "raw"
\*   fetch     outcome of cache.get_question_silent for it
\*   defs      Question.defs: list of [value |-> language tag, code |-> starter]
\*   dir       directory of its stub
\*   percent   Problem.percent in tenths of a percent
Profile(locked, desc, fetch, defs, dir, percent, category, level, starred) ==
  [locked |-> locked, desc |-> desc, fetch |-> fetch, defs |-> defs, dir |-> dir,
   percent |-> percent, category |-> category, level |-> level, starred |-> starred]

Def(value, code) == [value |-> value, code |-> code]

Profiles ==
  { Profile(FALSE, "json", "ok", <<Def("rust", "code_a")>>,
            "d1", 475, "algorithms", "Easy", FALSE),
    Profile(FALSE, "raw", "ok",
            <<Def("python", "code_py"), Def("rust", "code_a"), Def("rust", "code_b")>>,
            "d2", 550, "algorithms", "Medium", TRUE),
    Profile(TRUE, "raw", "fail", <<>>,
            "d1", 300, "database", "Hard", FALSE),
    Profile(FALSE, "json", "ok", <<Def("python", "code_py")>>,
            "d1", 99, "shell", "Easy", FALSE),
    Profile(FALSE, "json", "ok", <<Def("rust", "code_bad")>>,
            "d2", 1500, "algorithms", "Hard", FALSE),
    Profile(TRUE, "json", "ok", <<Def("rust", "code_a")>>,
            "d2", 0, "algorithms", "Medium", TRUE),
    Profile(FALSE, "json", "ok", <<Def("rust", "code_a")>>,
            "d1", 1000, "algorithms", "Easy", FALSE) }

\* conf.code: the test flag varies, the formatting options are all switched on.
Configs ==
  { [test |-> t, comment_problem_desc |-> TRUE, inject_before |-> <<"use_before">>,
     inject_after |-> <<"use_after">>, edit_code_marker |-> TRUE]
    : t \in BOOLEAN }

VARIABLES
  problems,          \* the catalog, in order; problems[i] has fid i
  conf,              \* conf.code
  continue_on_error, \* m.contains_id("continue_on_error")
  skip_premium,      \* m.contains_id("skip_premium")
  stubs,             \* stub files: code_path -> [complete, text]
  tests,             \* test-case files: test_cases_path -> [complete, text]
  mods,              \* manifests: directory -> sequence of lines
  links,             \* symlinks: set of [path, target]
  viewdirs,          \* view directories created by create_dir_all
  pc,                \* position in handler
  idx,               \* index of the problem of the current loop iteration
  viewk,             \* index of the next view in create_view's loop
  mod_rs_files,      \* the handle table: directory -> handle (index of its opener)
  premium_count,
  error_count,
  out,               \* what the handler returned or printed
  finalized,         \* manifests the finalizing loop has been through
  rerun,             \* FALSE in the first run of the handler over the workspace
  snap,              \* the file system when the current run started
  hist,              \* what the current run did, per problem
  faults,            \* injected I/O errors so far
  view_in,           \* argument of get_percent_view in the view specification
  view_out,          \* its result
  header_in,         \* question_desc given to create_file_header, as lines
  header_out,        \* the text create_file_header returned
  defs_in,           \* question.defs given to write_file's loop
  defs_out           \* `flag` and the text the loop appended

disk == <<stubs, tests, mods, links, viewdirs>>

vars == <<problems, conf, continue_on_error, skip_premium, stubs, tests, mods, links,
          viewdirs, pc, idx, viewk, mod_rs_files, premium_count, error_count, out,
          finalized, rerun, snap, hist, faults, view_in, view_out,
          header_in, header_out, defs_in, defs_out>>

\* ------------------------------------------------------------------ paths
\* crate::helper::code_path(problem, lang): the canonical stub path.
code_path(i) == <<problems[i].dir, Names[i]>>

\* crate::helper::test_cases_path(problem).
test_cases_path(i) == <<problems[i].dir, Names[i], "tests">>

\* Path::parent and Path::file_name of a stub path.
parent(path) == SubSeq(path, 1, Len(path) - 1)
file_name(path) == path[Len(path)]

\* ------------------------------------------------------- get_percent_view
\* `problem.percent as usize` on an f32 given in tenths: the cast truncates
\* toward zero and saturates, so every negative value becomes 0.  (The upper
\* saturation at usize::MAX is far above every value drawn here.)
AsUsize(tenths) == IF tenths < 0 THEN 0 ELSE tenths \div 10

Panic == <<"panic">>

\* get_percent_view: Path::new("percent").join(...), or a panic when
\* PERCENT_VIEWS[index / 10] is out of range.
get_percent_view(percent) ==
  LET index == AsUsize(percent) IN
  IF index > 100 THEN <<"percent", "unknown">>
  ELSE IF (index \div 10) + 1 \in DOMAIN PERCENT_VIEWS
       THEN <<"percent", PERCENT_VIEWS[(index \div 10) + 1]>>
       ELSE Panic

\* An array of views whose relative path is ".." for the percent view too.
ViewOfFlat(p, k) ==
  [rel |-> <<"..">>,
   view |-> CASE k = 1 -> <<p.category>>
              [] k = 2 -> <<p.level>>
              [] k = 3 -> <<IF p.starred THEN "starred" ELSE "unstarred">>
              [] k = 4 -> get_percent_view(p.percent)]

\* The array create_view iterates over: (relative_path, view) for k = 1..4.
ViewOf(p, k) ==
  CASE k = 1 -> [rel |-> <<"..">>, view |-> <<p.category>>]
    [] k = 2 -> [rel |-> <<"..">>, view |-> <<p.level>>]
    [] k = 3 -> [rel |-> <<"..">>,
                 view |-> <<IF p.starred THEN "starred" ELSE "unstarred">>]
    [] k = 4 -> [rel |-> <<"..", "..">>, view |-> get_percent_view(p.percent)]

NumViews == 4

\* Every prefix of view_dir below the stub's directory: what create_dir_all makes.
DirsMade(base, view) == { base \o SubSeq(view, 1, n) : n \in 1..Len(view) }

\* ------------------------------------------------------- content assembly
\* A text is a sequence of lines; a line is a tuple of strings, <<>> a blank
\* line, <<"//!", t>> a doc comment, <<"//", t>> a plain comment.
IsBlank(content) == \A n \in 1..Len(content) : content[n] = <<>>

\* write_comment: "//!" + "\n//!\n" when content.trim() is empty, else
\* "//! comment" + "\n//!\n".
write_comment(content, comment) ==
  IF IsBlank(content)
  THEN content \o << <<RUST_DOC_STR_START>>, <<RUST_DOC_STR_START>> >>
  ELSE content \o << <<RUST_DOC_STR_START, comment>>, <<RUST_DOC_STR_START>> >>

RECURSIVE write_comments(_, _)
write_comments(content, comments) ==
  IF comments = <<>> THEN content
  ELSE write_comments(write_comment(content, Head(comments)), Tail(comments))

\* question.desc(): the lines of the full statement.
QuestionDesc == <<"statement 1", "statement 2">>

create_file_header(question_desc) ==
  write_comments(<<>>, <<"# Challenge info", "url", "percent", "level", "category",
                         "# Question">> \o question_desc)
    \o << <<"//", "delete the line below to build the solution">>, <<>>,
          <<"#[cfg(feature = \"ignored\")]mod inner {">>,
          <<"use crate::solutions::Solution;">>, <<>> >>

create_file_footer(content) == content \o << <<"mod x{}}">> >>

Lines(kind, texts) == [n \in 1..Len(texts) |-> <<kind, texts[n]>>]

\* What write_file's loop body appends for one matching definition d.
EmitDef(d) ==
  (IF conf.comment_problem_desc
   THEN << <<"//", "p_desc_comment">>, <<"//", "question_desc">>, <<>> >> ELSE <<>>)
  \o Lines("code", conf.inject_before)
  \o (IF conf.edit_code_marker THEN << <<"//", "start_marker">> >> ELSE <<>>)
  \o << <<"code", d.code>> >>
  \o (IF conf.edit_code_marker THEN << <<"//", "end_marker">> >> ELSE <<>>)
  \o Lines("code", conf.inject_after)

RECURSIVE EmitDefs(_)
EmitDefs(defs) ==
  IF defs = <<>> THEN <<>>
  ELSE (IF Head(defs).value = Lang THEN EmitDef(Head(defs)) ELSE <<>>)
       \o EmitDefs(Tail(defs))

\* A loop that assigns `flag = (d.value == *lang)` in every iteration.
MatchedLast(defs) == defs # <<>> /\ defs[Len(defs)].value = Lang

\* Lines 126-135: `flag` starts false and is set in the branch of a
\* matching definition.
RECURSIVE FlagAfter(_, _)
FlagAfter(flag, defs) ==
  IF defs = <<>> THEN flag
  ELSE FlagAfter(IF Head(defs).value = Lang THEN TRUE ELSE flag, Tail(defs))

\* `flag` after the loop over question.defs.
Matched(defs) == FlagAfter(FALSE, defs)

\* fix_rust_code: syn::parse_file fails on starter code that is not Rust;
\* prettyplease::unparse prints the syntax tree, which holds neither the plain
\* comments nor the blank lines of the input.
FormatFails(content) == \E n \in 1..Len(content) : content[n] = <<"code", "code_bad">>

IsKept(line) == line # <<>> /\ line[1] # "//"

fix_rust_code(content) == SelectSeq(content, IsKept)

\* question.all_cases
AllCases(i) == <<"cases", Names[i]>>

\* ------------------------------------------------------------- write_file
Ok == [ok |-> TRUE, kind |-> "none", named |-> FALSE]
\* An error; named: its message carries problem.name and problem.fid.
Err(kind, named) == [ok |-> FALSE, kind |-> kind, named |-> named]

File(text) == [complete |-> TRUE, text |-> text]
\* A file that File::create made and write_all did not fill.
Partial == [complete |-> FALSE, text |-> <<>>]

Put(files, path, file) == [q \in DOMAIN files \cup {path} |->
                             IF q = path THEN file ELSE files[q]]
Remove(files, path) == [q \in DOMAIN files \ {path} |-> files[q]]

\* The outcome of one call: the result, the files after it and what it did.
Outcome(ret, stubs1, tests1, did) ==
  [ret |-> ret, stubs |-> stubs1, tests |-> tests1,
   skipped |-> "skipped" \in did, fetched |-> "fetched" \in did,
   wrote_stub |-> "stub" \in did, wrote_test |-> "test" \in did,
   fired |-> "fault" \in did]

\* A clean-up that reports the error and leaves the stub it wrote.
CleanUpKeepsStub(i, f, stubs1, tests1, did) ==
  Outcome(Err("unsupported", TRUE), stubs1, tests1, did)

\* A clean-up that removes the stub and returns Ok(()).
CleanUpSilent(i, f, stubs1, tests1, did) ==
  Outcome(Ok, Remove(stubs1, code_path(i)), tests1, did)

\* Lines 180-191: the clean-up when no definition matched, after the stub
\* has been written.  f names the call an injected I/O error hits.
CleanUp(i, f, stubs1, tests1, did) ==
  IF f = "remove_stub"
  THEN Outcome(Err("io", FALSE), stubs1, tests1, did \cup {"fault"})
  ELSE LET stubs2 == Remove(stubs1, code_path(i)) IN
       IF ~conf.test
       THEN Outcome(Err("unsupported", TRUE), stubs2, tests1, did)
       ELSE IF test_cases_path(i) \notin DOMAIN tests1
            THEN Outcome(Err("io", FALSE), stubs2, tests1, did)
            ELSE IF f = "remove_test"
                 THEN Outcome(Err("io", FALSE), stubs2, tests1, did \cup {"fault"})
                 ELSE Outcome(Err("unsupported", TRUE), stubs2,
                              Remove(tests1, test_cases_path(i)), did)

\* Lines 175-194: footer, formatting, the stub's creation and write.
Commit(i, f, content, flag, tests1, did) ==
  LET full == create_file_footer(content) IN
  IF FormatFails(full)
  THEN Outcome(Err("format", FALSE), stubs, tests1, did)
  ELSE IF f = "create_stub"
       THEN Outcome(Err("io", FALSE), stubs, tests1, did \cup {"fault"})
       ELSE IF f = "write_stub"
            THEN Outcome(Err("io", FALSE), Put(stubs, code_path(i), Partial), tests1,
                         did \cup {"fault", "stub"})
            ELSE LET stubs1 == Put(stubs, code_path(i), File(fix_rust_code(full))) IN
                 IF ~flag
                 THEN CleanUp(i, f, stubs1, tests1, did \cup {"stub"})
                 ELSE Outcome(Ok, stubs1, tests1, did \cup {"stub"})

\* Lines 122-174: the header and the loop over question.defs, which creates
\* the test file inside the branch of a matching definition.
Assemble(i, f, did) ==
  LET defs == problems[i].defs
      flag == Matched(defs)
      content == create_file_header(QuestionDesc) \o EmitDefs(defs)
  IN IF flag /\ conf.test
     THEN IF f = "create_test"
          THEN Outcome(Err("io", FALSE), stubs, tests, did \cup {"fault"})
          ELSE IF f = "write_test"
               THEN Outcome(Err("io", FALSE), stubs,
                            Put(tests, test_cases_path(i), Partial),
                            did \cup {"fault", "test"})
               ELSE Commit(i, f, content, flag,
                           Put(tests, test_cases_path(i), File(AllCases(i))),
                           did \cup {"test"})
     ELSE Commit(i, f, content, flag, tests, did)

\* A write_file that fetches the question before it looks for the stub.
write_file_eager(i, f) ==
  IF problems[i].fetch = "fail"
  THEN Outcome(Err("fetch", TRUE), stubs, tests, {"fetched"})
  ELSE IF code_path(i) \in DOMAIN stubs
       THEN Outcome(Ok, stubs, tests, {"skipped", "fetched"})
       ELSE Assemble(i, f, {"fetched"})

\* PopulateCommand::write_file on problems[i].
write_file(i, f) ==
  IF code_path(i) \in DOMAIN stubs
  THEN Outcome(Ok, stubs, tests, {"skipped"})
  ELSE IF problems[i].desc = "json"
       THEN Assemble(i, f, {})
       ELSE IF problems[i].fetch = "fail"
            THEN Outcome(Err("fetch", TRUE), stubs, tests, {"fetched"})
            ELSE Assemble(i, f, {"fetched"})

\* ---------------------------------------------------------------- handler
N == Len(problems)

NoHist == [gate |-> "none", ret |-> Ok, fetched |-> FALSE, wrote_stub |-> FALSE,
           wrote_test |-> FALSE, opened |-> FALSE, dirs_made |-> {}, linked |-> {},
           registered |-> FALSE]

NoOut == [status |-> "running", printed |-> FALSE, total |-> 0, premium |-> 0,
          errors |-> 0]

NoDefsOut == [flag |-> FALSE, content |-> <<>>]

\* The state in which handler starts its loop over a workspace.
Start(catalog) ==
  /\ problems \in catalog
  /\ conf \in Configs
  /\ continue_on_error \in BOOLEAN
  /\ skip_premium \in BOOLEAN
  /\ stubs = <<>> /\ tests = <<>> /\ mods = <<>>
  /\ links = {} /\ viewdirs = {}
  /\ pc = "loop" /\ idx = 1 /\ viewk = 1
  /\ mod_rs_files = <<>>
  /\ premium_count = 0 /\ error_count = 0
  /\ out = NoOut
  /\ finalized = {}
  /\ rerun = FALSE
  /\ snap = << <<>>, <<>>, <<>>, {}, {} >>
  /\ hist = [i \in 1..Len(problems) |-> NoHist]
  /\ faults = 0
  /\ view_in = 0 /\ view_out = <<>>
  /\ header_in = <<>> /\ header_out = <<>>
  /\ defs_in = <<>> /\ defs_out = NoDefsOut

Init == Start([1..NumProblems -> Profiles])

fixed == <<problems, conf, continue_on_error, skip_premium>>
text_vars == <<header_in, header_out, defs_in, defs_out>>
view_vars == <<view_in, view_out, text_vars>>

\* Where the loop goes after the iteration of problem idx.
NextPc == IF idx + 1 > N THEN "finalize" ELSE "loop"

\* `return Err(..)` out of handler (the `?` operator).
Abort == /\ pc' = "aborted"
         /\ out' = [out EXCEPT !.status = "err"]

\* A loop that skips every locked problem, whatever the flag.
SkipsLocked(problem) == problem.locked

\* Line 310: `skip_premium && problem.locked`.
IsSkipped(problem) == skip_premium /\ problem.locked

\* A premium branch that skips the problem without counting it.
SkipPremiumUncounted ==
  /\ pc = "loop" /\ idx <= N
  /\ IsSkipped(problems[idx])
  /\ hist' = [hist EXCEPT ![idx].gate = "premium"]
  /\ idx' = idx + 1
  /\ pc' = NextPc
  /\ UNCHANGED <<fixed, disk, viewk, mod_rs_files, premium_count, error_count, out,
                 finalized, rerun, snap, faults, view_vars>>

\* Lines 310-318: a locked problem under skip_premium.
SkipPremium ==
  /\ pc = "loop" /\ idx <= N
  /\ IsSkipped(problems[idx])
  /\ premium_count' = premium_count + 1
  /\ hist' = [hist EXCEPT ![idx].gate = "premium"]
  /\ idx' = idx + 1
  /\ pc' = NextPc
  /\ UNCHANGED <<fixed, disk, viewk, mod_rs_files, error_count, out, finalized,
                 rerun, snap, faults, view_vars>>

\* A loop that counts and continues on every error, whatever the flag.
ContinuesAlways(ret) == ~ret.ok

\* Line 321: `ret.is_err() && continue_on_error`.
Continues(ret) == ~ret.ok /\ continue_on_error

\* Lines 320-327: write_file and what the loop does with its result.
GateStep(f) ==
  /\ pc = "loop" /\ idx <= N
  /\ ~IsSkipped(problems[idx])
  /\ LET r == write_file(idx, f) IN
     /\ (f # "none") => r.fired
     /\ stubs' = r.stubs
     /\ tests' = r.tests
     /\ hist' = [hist EXCEPT ![idx] =
                   [@ EXCEPT !.gate = IF ~r.ret.ok THEN "err"
                                      ELSE IF r.skipped THEN "skip" ELSE "commit",
                             !.ret = r.ret, !.fetched = r.fetched,
                             !.wrote_stub = r.wrote_stub,
                             !.wrote_test = r.wrote_test]]
     /\ IF Continues(r.ret)
        THEN /\ error_count' = error_count + 1
             /\ idx' = idx + 1
             /\ pc' = NextPc
             /\ out' = out
        ELSE IF ~r.ret.ok
             THEN Abort /\ UNCHANGED <<idx, error_count>>
             ELSE /\ pc' = "open"
                  /\ UNCHANGED <<idx, error_count, out>>
  /\ faults' = IF f = "none" THEN faults ELSE faults + 1
  /\ UNCHANGED <<fixed, mods, links, viewdirs, viewk, mod_rs_files, premium_count,
                 finalized, rerun, snap, view_vars>>

\* Lines 329-336: the manifest is opened (created when absent, append mode).
OpenStep(f) ==
  /\ pc = "open"
  /\ faults' = IF f = "none" THEN faults ELSE faults + 1
  /\ IF f = "open_mod"
     THEN Abort /\ UNCHANGED <<mods, hist, viewk>>
     ELSE /\ mods' = IF problems[idx].dir \in DOMAIN mods THEN mods
                     ELSE Put(mods, problems[idx].dir, <<>>)
          /\ hist' = [hist EXCEPT ![idx].opened = TRUE]
          /\ pc' = "create_view"
          /\ viewk' = 1
          /\ out' = out
  /\ UNCHANGED <<fixed, stubs, tests, links, viewdirs, idx, mod_rs_files,
                 premium_count, error_count, finalized, rerun, snap, view_vars>>

\* Line 224 runs while the array of views is built, before the first
\* iteration of create_view's loop: get_percent_view may panic there.
ViewPanic ==
  /\ pc = "create_view" /\ viewk = 1
  /\ get_percent_view(problems[idx].percent) = Panic
  /\ pc' = "panicked"
  /\ out' = [out EXCEPT !.status = "panic"]
  /\ UNCHANGED <<fixed, disk, idx, viewk, mod_rs_files, premium_count, error_count,
                 finalized, rerun, snap, hist, faults, view_vars>>

\* A symlink call that replaces an existing link instead of failing.
LinkAtReplaced(path) == FALSE

\* Whether a symlink already sits at path.
LinkAt(path) == \E l \in links : l.path = path

\* Lines 226-231: one iteration of create_view's loop.
ViewStep(f) ==
  /\ pc = "create_view"
  /\ get_percent_view(problems[idx].percent) # Panic
  /\ faults' = IF f = "none" THEN faults ELSE faults + 1
  /\ (f = "symlink") =>
       ~LinkAt(parent(code_path(idx)) \o ViewOf(problems[idx], viewk).view
                 \o <<file_name(code_path(idx))>>)
  /\ LET original == code_path(idx)
         v == ViewOf(problems[idx], viewk)
         view_dir == parent(original) \o v.view
         made == DirsMade(parent(original), v.view)
         link == [path |-> view_dir \o <<file_name(original)>>,
                  target |-> v.rel \o <<file_name(original)>>]
     IN IF f = "create_dir"
        THEN Abort /\ UNCHANGED <<viewdirs, links, hist, viewk>>
        ELSE /\ viewdirs' = viewdirs \cup made
             /\ IF f = "symlink" \/ LinkAt(link.path)
                THEN /\ Abort
                     /\ hist' = [hist EXCEPT ![idx].dirs_made = @ \cup (made \ viewdirs)]
                     /\ UNCHANGED <<links, viewk>>
                ELSE /\ links' = links \cup {link}
                     /\ hist' = [hist EXCEPT ![idx].dirs_made = @ \cup (made \ viewdirs),
                                             ![idx].linked = @ \cup {viewk}]
                     /\ IF viewk = NumViews
                        THEN pc' = "mod_write" /\ viewk' = 1
                        ELSE pc' = pc /\ viewk' = viewk + 1
                     /\ out' = out
  /\ UNCHANGED <<fixed, stubs, tests, mods, idx, mod_rs_files, premium_count,
                 error_count, finalized, rerun, snap, view_vars>>

\* The reference line `mod <name>;`.
ModLine(i) == <<"mod", Names[i]>>

\* The handle's contents after a write of `line` through a handle opened
\* without append(true): the write lands at the start of the file.
WriteOverwriting(text, line) == IF text = <<>> THEN <<line>> ELSE <<line>> \o Tail(text)

\* write_all on a handle opened with append(true): the line goes to the end
\* of the file, whatever other handle wrote to it before.
WriteAppend(text, line) == Append(text, line)

\* Lines 338-339: the reference line is appended and the handle is put
\* into the table, in place of the handle the table held for that path.
ModWriteStep(f) ==
  /\ pc = "mod_write"
  /\ faults' = IF f = "none" THEN faults ELSE faults + 1
  /\ IF f = "mod_write"
     THEN Abort /\ UNCHANGED <<mods, hist, mod_rs_files, idx>>
     ELSE /\ mods' = [mods EXCEPT ![problems[idx].dir] = WriteAppend(@, ModLine(idx))]
          /\ hist' = [hist EXCEPT ![idx].registered = TRUE]
          /\ mod_rs_files' = Put(mod_rs_files, problems[idx].dir, idx)
          /\ idx' = idx + 1
          /\ pc' = NextPc
          /\ out' = out
  /\ UNCHANGED <<fixed, stubs, tests, links, viewdirs, viewk, premium_count,
                 error_count, finalized, rerun, snap, view_vars>>

\* The two write_all calls of lines 350-351.
Boilerplate == << <<>>, <<>>, <<"#[allow(dead_code)]">>, <<"pub(crate) struct Solution;">> >>

\* Lines 349-353: one iteration of the loop over mod_rs_files.values_mut(),
\* whose order the HashMap decides.
FinalizeStep(f) ==
  /\ pc = "finalize"
  /\ faults' = IF f = "none" THEN faults ELSE faults + 1
  /\ \E d \in DOMAIN mod_rs_files \ finalized :
       IF f = "final_write"
       THEN /\ Abort
            /\ mods' = [mods EXCEPT ![d] = @ \o SubSeq(Boilerplate, 1, 3)]
            /\ UNCHANGED finalized
       ELSE /\ mods' = [mods EXCEPT ![d] = @ \o Boilerplate]
            /\ finalized' = finalized \cup {d}
            /\ UNCHANGED <<pc, out>>
  /\ UNCHANGED <<fixed, stubs, tests, links, viewdirs, idx, viewk, mod_rs_files,
                 premium_count, error_count, rerun, snap, hist, view_vars>>

\* Lines 356-362: the summary.
Summary ==
  /\ pc = "finalize"
  /\ DOMAIN mod_rs_files \subseteq finalized
  /\ pc' = "done"
  /\ out' = [status |-> "ok", printed |-> TRUE, total |-> Len(problems),
             premium |-> premium_count, errors |-> error_count]
  /\ UNCHANGED <<fixed, disk, idx, viewk, mod_rs_files, premium_count, error_count,
                 finalized, rerun, snap, hist, faults, view_vars>>

Terminated == pc \in {"done", "aborted", "panicked"}

\* The command is run again over the workspace the last run left.
Rerun ==
  /\ Terminated
  /\ pc' = "loop" /\ idx' = 1 /\ viewk' = 1
  /\ mod_rs_files' = <<>>
  /\ premium_count' = 0 /\ error_count' = 0
  /\ out' = NoOut
  /\ finalized' = {}
  /\ rerun' = TRUE
  /\ snap' = disk
  /\ hist' = [i \in 1..N |-> NoHist]
  /\ UNCHANGED <<fixed, disk, faults, view_vars>>

Gate == GateStep("none")
OpenMod == OpenStep("none")
CreateView == ViewStep("none")
ModWrite == ModWriteStep("none")
Finalize == FinalizeStep("none")

Next == \/ SkipPremium
        \/ Gate
        \/ OpenMod
        \/ ViewPanic
        \/ CreateView
        \/ ModWrite
        \/ Finalize
        \/ Summary
        \/ Rerun

Spec == Init /\ [][Next]_vars

\* ------------------------------------------------- injected I/O errors
\* The calls of write_file an I/O error can be injected into.
GateFaults == {"create_test", "write_test", "create_stub", "write_stub",
               "remove_stub", "remove_test"}

GateFault == faults < MaxFaults /\ \E f \in GateFaults : GateStep(f)
OpenFault == faults < MaxFaults /\ OpenStep("open_mod")
ViewFault == faults < MaxFaults /\ \E f \in {"create_dir", "symlink"} : ViewStep(f)
ModWriteFault == faults < MaxFaults /\ ModWriteStep("mod_write")
FinalizeFault == faults < MaxFaults /\ FinalizeStep("final_write")

NextFault == \/ Next
             \/ GateFault
             \/ OpenFault
             \/ ViewFault
             \/ ModWriteFault
             \/ FinalizeFault

InitFault == Start([1..NumProblemsFault -> Profiles])

SpecFault == InitFault /\ [][NextFault]_vars

\* ---------------------------------------- get_percent_view on its own
\* One problem whose percent is drawn from -PercentBelow .. PercentAbove
\* tenths; the only step applies get_percent_view to it.
InitView ==
  /\ problems \in [1..1 -> Profiles]
  /\ conf \in Configs
  /\ continue_on_error = FALSE /\ skip_premium = FALSE
  /\ stubs = <<>> /\ tests = <<>> /\ mods = <<>>
  /\ links = {} /\ viewdirs = {}
  /\ pc = "view" /\ idx = 1 /\ viewk = NumViews
  /\ mod_rs_files = <<>>
  /\ premium_count = 0 /\ error_count = 0
  /\ out = NoOut
  /\ finalized = {}
  /\ rerun = FALSE
  /\ snap = << <<>>, <<>>, <<>>, {}, {} >>
  /\ hist = [i \in 1..1 |-> NoHist]
  /\ faults = 0
  /\ view_in \in (0 - PercentBelow)..PercentAbove
  /\ view_out = <<>>
  /\ header_in = <<>> /\ header_out = <<>>
  /\ defs_in = <<>> /\ defs_out = NoDefsOut

ApplyView ==
  /\ pc = "view"
  /\ view_out' = get_percent_view(view_in)
  /\ pc' = "viewed"
  /\ UNCHANGED <<fixed, disk, idx, viewk, mod_rs_files, premium_count, error_count,
                 out, finalized, rerun, snap, hist, faults, view_in, text_vars>>

NextView == ApplyView

SpecView == InitView /\ [][NextView]_vars

\* ------------------------- create_file_header and the loop over the defs
\* The statement is drawn as up to MaxLines lines, question.defs as up to
\* MaxDefs definitions; one step applies create_file_header, the next the
\* loop of write_file.
StatementLines == {"statement 1", "statement 2", ""}

DefsDrawn == {Def("rust", "code_a"), Def("rust", "code_b"), Def("python", "code_py")}

SeqsUpTo(S, n) == UNION {[1..m -> S] : m \in 0..n}

InitText ==
  /\ problems = <<>>
  /\ conf \in Configs
  /\ continue_on_error = FALSE /\ skip_premium = FALSE
  /\ stubs = <<>> /\ tests = <<>> /\ mods = <<>>
  /\ links = {} /\ viewdirs = {}
  /\ pc = "text" /\ idx = 1 /\ viewk = 1
  /\ mod_rs_files = <<>>
  /\ premium_count = 0 /\ error_count = 0
  /\ out = NoOut
  /\ finalized = {}
  /\ rerun = FALSE
  /\ snap = << <<>>, <<>>, <<>>, {}, {} >>
  /\ hist = <<>>
  /\ faults = 0
  /\ view_in = 0 /\ view_out = <<>>
  /\ header_in \in SeqsUpTo(StatementLines, MaxLines)
  /\ header_out = <<>>
  /\ defs_in \in SeqsUpTo(DefsDrawn, MaxDefs)
  /\ defs_out = NoDefsOut

ApplyHeader ==
  /\ pc = "text"
  /\ header_out' = create_file_header(header_in)
  /\ pc' = "headed"
  /\ UNCHANGED <<fixed, disk, idx, viewk, mod_rs_files, premium_count, error_count,
                 out, finalized, rerun, snap, hist, faults, view_in, view_out,
                 header_in, defs_in, defs_out>>

ApplyDefs ==
  /\ pc = "headed"
  /\ defs_out' = [flag |-> Matched(defs_in), content |-> EmitDefs(defs_in)]
  /\ pc' = "emitted"
  /\ UNCHANGED <<fixed, disk, idx, viewk, mod_rs_files, premium_count, error_count,
                 out, finalized, rerun, snap, hist, faults, view_in, view_out,
                 header_in, header_out, defs_in>>

NextText == ApplyHeader \/ ApplyDefs

SpecText == InitText /\ [][NextText]_vars

\* ================================================================ claims
StubExists(i) == code_path(i) \in DOMAIN stubs
TestExists(i) == test_cases_path(i) \in DOMAIN tests
Problems == 1..Len(problems)

\* C1: a run of the handler over a workspace an earlier run left, with the
\* same catalog, questions and configuration, ends with every stub, test
\* file, manifest, view link and view directory as the earlier run left
\* them, and writes no stub that existed when it started.
C1_Idempotent ==
  (rerun /\ Terminated) =>
    /\ disk = snap
    /\ \A i \in Problems : hist[i].wrote_stub => code_path(i) \notin DOMAIN snap[1]

\* C1 witness: a second run that has ended after meeting an existing stub.
C1_Witness ==
  /\ rerun /\ Terminated
  /\ \E i \in Problems : hist[i].gate = "skip"
  /\ \E i \in Problems : hist[i].gate = "err"

\* C2: when write_file returns an error for a problem whose question has no
\* definition in the configured language, neither the stub path nor the
\* test-case path exists, whatever the test flag.
C2_Rollback ==
  \A i \in Problems :
    (hist[i].gate = "err" /\ ~Matched(problems[i].defs)) =>
      ~StubExists(i) /\ ~TestExists(i)

\* C2 witness: with the test flag set, write_file wrote the stub of such a
\* problem and returned an error.
C2_Witness ==
  \E i \in Problems :
    /\ hist[i].gate = "err" /\ ~Matched(problems[i].defs)
    /\ hist[i].wrote_stub /\ conf.test

\* The reference lines the current run appended to the manifest of directory
\* d, in the order the problems were processed.
RECURSIVE RefLines(_, _)
RefLines(d, n) ==
  IF n = 0 THEN <<>>
  ELSE RefLines(d, n - 1)
       \o (IF hist[n].registered /\ problems[n].dir = d THEN <<ModLine(n)>> ELSE <<>>)

\* The manifest of d when the current run started.
Before(d) == IF d \in DOMAIN snap[3] THEN snap[3][d] ELSE <<>>

\* C3: every manifest holds, after what it held when the run started, the
\* reference lines of the problems of its own directory in processing order,
\* then the boilerplate block once the finalizing loop has been through it;
\* no manifest is finalized before the last problem has been processed; and
\* after a batch that ran to completion every manifest is exactly its
\* reference lines followed by one boilerplate block.
C3_ManifestOrdering ==
  /\ \A d \in DOMAIN mods :
       mods[d] = Before(d) \o RefLines(d, Len(problems))
                   \o (IF d \in finalized THEN Boilerplate ELSE <<>>)
  /\ (finalized # {}) => (idx > Len(problems) /\ pc \in {"finalize", "done"})
  /\ (pc = "done") =>
       \A d \in DOMAIN mods : mods[d] = RefLines(d, Len(problems)) \o Boilerplate

\* C3 witness: a completed batch in which the registrations of two manifest
\* paths alternate.
C3_Witness ==
  /\ pc = "done"
  /\ \E i \in Problems :
       /\ i + 2 \in Problems
       /\ hist[i].registered /\ hist[i + 1].registered /\ hist[i + 2].registered
       /\ problems[i].dir = problems[i + 2].dir
       /\ problems[i].dir # problems[i + 1].dir

\* The decade label the claim gives an integer percent p in 0..100.
DecadeLabel(p) == PERCENT_VIEWS[IF p = 100 THEN 10 ELSE (p \div 10) + 1]

\* C4: for every integer percent p with 0 <= p <= 100, get_percent_view
\* returns percent/<decade label of p>, with "90-100" for p = 100, and never
\* indexes PERCENT_VIEWS out of range.
C4_Bucketing ==
  (pc = "viewed" /\ view_in \in 0..1000 /\ view_in % 10 = 0) =>
    view_out = <<"percent", DecadeLabel(view_in \div 10)>>

\* C5: every percent below 0 or above 100 is mapped to percent/unknown.
C5_OutOfRange ==
  (pc = "viewed" /\ (view_in < 0 \/ view_in > 1000)) =>
    view_out = <<"percent", "unknown">>

\* C6: for a problem whose stub exists when the loop reaches it, the run
\* writes no stub and no test file, creates no view directory and no
\* symlink, and appends no reference line.
C6_SkipTerminal ==
  \A i \in Problems :
    hist[i].gate = "skip" =>
      /\ ~hist[i].wrote_stub /\ ~hist[i].wrote_test
      /\ hist[i].dirs_made = {} /\ hist[i].linked = {}
      /\ ~hist[i].registered

\* The problems whose write_file failed in the current run.
Failed == {i \in Problems : hist[i].gate = "err"}

\* C7: the problems are processed in catalog order; with continue_on_error
\* set every failure of write_file is counted once and the loop has moved on
\* to the next problem; with it unset the first failure is returned by the
\* handler, at that problem, and no later problem is processed.
C7_ContinuePolicy ==
  /\ \A j \in Problems : /\ (j < idx) => hist[j].gate # "none"
                         /\ (j > idx) => hist[j] = NoHist
  /\ continue_on_error =>
       /\ error_count = Cardinality(Failed)
       /\ \A i \in Failed : idx > i
  /\ ~continue_on_error =>
       /\ error_count = 0
       /\ \A i \in Failed : /\ pc = "aborted" /\ out.status = "err" /\ ~out.printed
                            /\ idx = i

\* C7 witness: with the flag set, a failed problem followed by a problem
\* whose stub was committed.
C7_Witness ==
  /\ continue_on_error
  /\ \E i \in Failed : i + 1 \in Problems /\ hist[i + 1].gate = "commit"

\* C8: with continue_on_error set, a run that has ended has reached the end
\* of the list, finalized the manifests and printed the summary.
C8_AlwaysSummary ==
  (continue_on_error /\ Terminated /\ pc # "panicked") =>
    (pc = "done" /\ out.printed)

\* C9: whenever the question was obtained and none of its definitions is in
\* the configured language, write_file fails with the unsupported-language
\* error, which carries the problem's name and id, whatever the test flag.
C9_Unsupported ==
  \A i \in Problems :
    (hist[i].gate = "err" /\ hist[i].ret.kind # "fetch"
       /\ ~Matched(problems[i].defs)) =>
      (hist[i].ret.kind = "unsupported" /\ hist[i].ret.named)

\* C10: after write_file has returned, with success or with an error, either
\* the stub is fully written, with its test file when the test flag is set,
\* or there is no stub and no test file written by the call.
C10_AllOrNothing ==
  \A i \in Problems :
    hist[i].gate \in {"commit", "err"} =>
      \/ /\ StubExists(i) /\ stubs[code_path(i)].complete
         /\ conf.test => (TestExists(i) /\ tests[test_cases_path(i)].complete)
      \/ /\ ~StubExists(i)
         /\ ~(hist[i].wrote_test /\ TestExists(i))

\* The problems of directory d for which the current run opened the manifest.
Openers(d) == {i \in Problems : hist[i].opened /\ problems[i].dir = d}

\* C11: each manifest path is opened at most once per run: only the first
\* problem of a directory opens its manifest, and the handle table keeps
\* that first handle for the later problems of the directory.
C11_OpenOnce ==
  \A d \in Dirs :
    /\ Cardinality(Openers(d)) <= 1
    /\ d \in DOMAIN mod_rs_files => \A i \in Openers(d) : mod_rs_files[d] <= i

\* C12: when the handler has ended, by completing or by returning an error,
\* every manifest that received a reference line during the run ends with
\* exactly one boilerplate block after its last reference line.
C12_FinalizedOnExit ==
  pc \in {"done", "aborted"} =>
    \A d \in DOMAIN mods :
      RefLines(d, Len(problems)) # <<>> =>
        mods[d] = Before(d) \o RefLines(d, Len(problems)) \o Boilerplate

\* What the run left on disk or in a manifest for problem i.
Traces(i) ==
  \/ StubExists(i)
  \/ TestExists(i)
  \/ \E l \in links : file_name(l.path) = Names[i]
  \/ \E d \in DOMAIN mods : \E n \in 1..Len(mods[d]) : mods[d][n] = ModLine(i)

PremiumSkipped == {i \in Problems : hist[i].gate = "premium"}

\* C13: with skip_premium set every locked problem adds one to the premium
\* count and gets no fetch, no stub, no test file, no view link and no
\* reference line; with it unset a locked problem goes through write_file
\* and registration like any other and the premium count stays 0.
C13_SkipPremium ==
  /\ premium_count = Cardinality(PremiumSkipped)
  /\ \A i \in PremiumSkipped :
       /\ skip_premium /\ problems[i].locked
       /\ hist[i] = [NoHist EXCEPT !.gate = "premium"]
       /\ ~Traces(i)
  /\ \A i \in Problems :
       (problems[i].locked /\ i < idx) =>
         IF skip_premium THEN i \in PremiumSkipped
         ELSE /\ hist[i].gate \in {"skip", "commit", "err"}
              /\ hist[i].registered = hist[i].ret.ok
  /\ ~skip_premium => premium_count = 0

C13_Witness ==
  /\ skip_premium /\ pc = "done"
  /\ PremiumSkipped # {}
  /\ \E j \in Problems : hist[j].registered

\* The stub of problem i was on disk when the run started, hence when its
\* gate was entered: only the gate of problem i writes that path.
StubAtGate(i) == code_path(i) \in DOMAIN snap[1]

\* C14: get_question_silent is not called for a problem whose stub exists
\* when write_file is entered; for a problem without a stub it is called
\* only when problem.desc does not parse.
C14_LazyFetch ==
  \A i \in Problems :
    /\ hist[i].gate # "none" /\ StubAtGate(i) => hist[i].gate = "skip" /\ ~hist[i].fetched
    /\ hist[i].fetched => ~StubAtGate(i) /\ problems[i].desc # "json"

C14_Witness ==
  /\ rerun
  /\ \E i \in Problems : hist[i].fetched
  /\ \E j \in Problems :
       hist[j].gate = "skip" /\ problems[j].desc # "json" /\ ~hist[j].fetched

\* The path a relative symlink target names, resolved component by
\* component from the directory that holds the link.
RECURSIVE Resolve(_, _)
Resolve(base, target) ==
  IF target = <<>> THEN base
  ELSE IF Head(target) = ".." THEN Resolve(parent(base), Tail(target))
       ELSE Resolve(Append(base, Head(target)), Tail(target))

LinksOf(i) == {l \in links : file_name(l.path) = Names[i]}

Indexed(i) == hist[i].linked = 1..NumViews

\* C15: a problem create_view has gone through has exactly four symlinks
\* named after its stub file, one in each of <category>, <difficulty label>,
\* starred or unstarred, and percent/<bucket> under the stub's directory;
\* the target of each, resolved from the directory holding the link, is the
\* stub path, with one ".." for the first three and two for the percent link.
C15_ViewLinks ==
  \A i \in Problems :
    Indexed(i) =>
      LET p == problems[i]
          flat == {l \in LinksOf(i) : Len(l.path) = 3}
          deep == LinksOf(i) \ flat
      IN /\ Cardinality(LinksOf(i)) = 4
         /\ {parent(l.path) : l \in flat} =
              { <<p.dir, p.category>>, <<p.dir, p.level>>,
                <<p.dir, IF p.starred THEN "starred" ELSE "unstarred">> }
         /\ Cardinality(flat) = 3
         /\ \A l \in deep : Len(l.path) = 4 /\ SubSeq(l.path, 1, 2) = <<p.dir, "percent">>
         /\ \A l \in flat : l.target = <<"..", Names[i]>>
         /\ \A l \in deep : l.target = <<"..", "..", Names[i]>>
         /\ \A l \in LinksOf(i) : Resolve(parent(l.path), l.target) = code_path(i)

C15_Witness ==
  \E i, j \in Problems :
    /\ Indexed(i) /\ Indexed(j)
    /\ problems[i].starred /\ ~problems[j].starred
    /\ problems[i].dir # problems[j].dir

\* C16: every error write_file returns carries the problem's name and
\* numeric id, whatever caused it.
C16_ErrorsNamed ==
  \A i \in Problems : hist[i].gate = "err" => hist[i].ret.named

IsDocText(line) == Len(line) = 2 /\ line[1] = RUST_DOC_STR_START

\* The texts of the doc-comment lines of a header, in order.
DocTexts(content) ==
  LET docs == SelectSeq(content, IsDocText) IN [n \in 1..Len(docs) |-> docs[n][2]]

\* C17: the text create_file_header returns holds, in order and each on a
\* doc-comment line of its own, the "Challenge info" heading, the url, the
\* percent, the level, the category, the "Question" heading and one line
\* per line of the statement; write_comment drops none of them.
C17_HeaderLines ==
  pc \in {"headed", "emitted"} =>
    DocTexts(header_out) =
      <<"# Challenge info", "url", "percent", "level", "category", "# Question">>
        \o header_in

IsLangDef(d) == d.value = Lang

IsStarter(line) ==
  Len(line) = 2 /\ line[1] = "code" /\ \E d \in DefsDrawn : d.code = line[2]

\* The starter codes a text holds, in order.
StarterCodes(content) ==
  LET starters == SelectSeq(content, IsStarter)
  IN [n \in 1..Len(starters) |-> starters[n][2]]

\* C18: after the loop over question.defs, flag is true exactly when some
\* definition has the configured language; the text holds the starter code
\* of every such definition once per occurrence, in list order, and
\* nothing for the other definitions.
C18_LanguageMatching ==
  pc = "emitted" =>
    LET matching == SelectSeq(defs_in, IsLangDef) IN
    /\ defs_out.flag = (\E n \in 1..Len(defs_in) : defs_in[n].value = Lang)
    /\ StarterCodes(defs_out.content) = [n \in 1..Len(matching) |-> matching[n].code]
    /\ matching = <<>> => defs_out.content = <<>>

C18_Witness ==
  /\ pc = "emitted"
  /\ Len(defs_in) = 3
  /\ defs_in[1].value # Lang
  /\ defs_in[2] = defs_in[3] /\ defs_in[2].value = Lang
  /\ StarterCodes(defs_out.content) = <<defs_in[2].code, defs_in[3].code>>

HasRefLine(i) ==
  \E d \in DOMAIN mods : \E n \in 1..Len(mods[d]) : mods[d][n] = ModLine(i)

\* C19: in every state of a run, a reference line or a view link belongs to
\* a problem whose stub is on disk; a premium-skipped or failed problem has
\* neither, and a reference line is written only after the four view links
\* of its problem were created.
C19_RegisteredHasStub ==
  \A i \in Problems :
    /\ (LinksOf(i) # {} \/ HasRefLine(i)) => StubExists(i)
    /\ (hist[i].linked # {} \/ hist[i].registered) =>
         hist[i].gate \in {"commit", "skip"}
    /\ hist[i].gate \in {"premium", "err"} => LinksOf(i) = {} /\ ~HasRefLine(i)
    /\ hist[i].registered => Indexed(i) /\ Cardinality(LinksOf(i)) = NumViews
    /\ HasRefLine(i) => Cardinality(LinksOf(i)) = NumViews

C19_Witness ==
  /\ pc = "done"
  /\ \E i \in Problems : hist[i].registered
  /\ \E j \in Problems : hist[j].gate = "err"
  /\ \E k \in Problems : hist[k].gate = "premium"

IsModLine(line) == Len(line) = 2 /\ line[1] = "mod"

\* The reference lines the current run appended to the manifest of d.
Appended(d) ==
  IF d \in DOMAIN mods
  THEN Len(SelectSeq(mods[d], IsModLine)) - Len(SelectSeq(Before(d), IsModLine))
  ELSE 0

RECURSIVE AppendedIn(_)
AppendedIn(ds) ==
  IF ds = {} THEN 0
  ELSE LET d == CHOOSE x \in ds : TRUE IN Appended(d) + AppendedIn(ds \ {d})

Registered == {i \in Problems : hist[i].registered}

\* C20: when a run completes, the reported total is the number of problems
\* of the catalog, the premium count the number of locked problems skipped,
\* the error count the number of problems whose write_file failed, and the
\* total is the sum of the two and of the reference lines appended during
\* the run, each problem being in exactly one of the three groups.
C20_SummaryCounters ==
  pc = "done" =>
    /\ out.printed /\ out.total = Len(problems)
    /\ out.premium = Cardinality(PremiumSkipped)
    /\ PremiumSkipped \subseteq {i \in Problems : problems[i].locked}
    /\ out.errors = Cardinality(Failed)
    /\ AppendedIn(Dirs) = Cardinality(Registered)
    /\ out.total = out.premium + out.errors + AppendedIn(Dirs)
    /\ PremiumSkipped \cup Failed \cup Registered = Problems
    /\ PremiumSkipped \cap Failed = {}
    /\ PremiumSkipped \cap Registered = {}
    /\ Failed \cap Registered = {}

C20_Witness ==
  /\ pc = "done"
  /\ out.premium = 1 /\ out.errors = 1 /\ AppendedIn(Dirs) = 1

====
